---- MODULE Spec2Model ----
(***************************************************************************)
(* ClassKit Studio (src/app.py): the record store, the content generator,  *)
(* the assignment renderer and the routing of main(), as a state machine.  *)
(*                                                                         *)
(* Python values are modelled as follows.  A str is a TLA+ string; where   *)
(* the code looks inside a string (the "in" test of call_gemini_json, the  *)
(* text a renderer emits) the string is expanded to its characters by      *)
(* Chars.  None is the string None below, which no text of the model       *)
(* equals.  A dict is a record carrying the tag j = "dict" beside its      *)
(* keys, so {} is [j |-> "dict"]; None where a dict is expected is         *)
(* [j |-> "None"], and JSON null is [j |-> "null"].                        *)
(***************************************************************************)
EXTENDS Integers, Sequences, FiniteSets, TLC

VARIABLES
  GOOGLE_API_KEY,  \* os.getenv("GOOGLE_API_KEY"): None or a key
  db,              \* the rows of table projects
  uuid_calls,      \* how many times uuid.uuid4() has been called
  session_state,   \* st.session_state of every browser session
  pc,              \* per session: "idle", or "generating" inside call_gemini_json
  project,         \* per session: the dict load_project returned to the running script
  gen_kind,        \* per session: the Generate button clicked in the running script
  request,         \* per session: the inputs of the running script
  clicks,          \* how many Generate clicks have been handled
  clock,           \* datetime.datetime.now(), in ticks
  last,            \* the latest script run: its inputs and what it rendered
  first_write,     \* id -> what the first save_project call for that id wrote
  probe            \* the latest direct application of a function: inputs and output

vars == <<GOOGLE_API_KEY, db, uuid_calls, session_state, pc, project, gen_kind,
          request, clicks, clock, last, first_write, probe>>

TEACHER_CODE == "changeme"

None == "<None>"
True == "True"
False == "False"

\* Python truthiness of a str-or-None value
TruthyStr(s) == s # None /\ s # ""

-----------------------------------------------------------------------------
(* Bounds of the model *)

\* projects created through the form
MaxProjects == 2
\* clicks on a Generate button, over all sessions
MaxGenerations == 2
\* save_project calls applied directly to the store
MaxSaves == 3
\* questions in an assignment document handed to the renderer
MaxQuestions == 2

-----------------------------------------------------------------------------
(* Strings as character sequences *)

\* str.lower() on one character
LowerChar(c) ==
  CASE c = "A" -> "a" [] c = "B" -> "b" [] c = "C" -> "c" [] c = "D" -> "d"
    [] c = "E" -> "e" [] c = "F" -> "f" [] c = "G" -> "g" [] c = "H" -> "h"
    [] c = "I" -> "i" [] c = "J" -> "j" [] c = "K" -> "k" [] c = "L" -> "l"
    [] c = "M" -> "m" [] c = "N" -> "n" [] c = "O" -> "o" [] c = "P" -> "p"
    [] c = "Q" -> "q" [] c = "R" -> "r" [] c = "S" -> "s" [] c = "T" -> "t"
    [] c = "U" -> "u" [] c = "V" -> "v" [] c = "W" -> "w" [] c = "X" -> "x"
    [] c = "Y" -> "y" [] c = "Z" -> "z"
    [] OTHER -> c

\* str.lower()
Lower(cs) == [i \in 1..Len(cs) |-> LowerChar(cs[i])]

\* needle in hay
Contains(hay, needle) ==
  \E i \in 1..(Len(hay) - Len(needle) + 1) :
     SubSeq(hay, i, i + Len(needle) - 1) = needle

Chars(s) ==
  CASE s = "" ->
         <<>>
    [] s = "None" ->
         <<"N", "o", "n", "e">>
    [] s = "slides" ->
         <<"s", "l", "i", "d", "e", "s">>
    [] s = "poster" ->
         <<"p", "o", "s", "t", "e", "r">>
    [] s = "Answer:" ->
         <<"A", "n", "s", "w", "e", "r", ":">>
    [] s = "Create a slide deck for " ->
         <<"C", "r", "e", "a", "t", "e", " ", "a", " ", "s", "l", "i", "d", "e", " ", "d", "e", "c", "k", " ", "f", "o", "r", " ">>
    [] s = "Create a one-page educational poster content for " ->
         <<"C", "r", "e", "a", "t", "e", " ", "a", " ", "o", "n", "e", "-", "p", "a", "g", "e", " ", "e", "d", "u", "c", "a", "t", "i", "o", "n", "a", "l", " ", "p", "o", "s", "t", "e", "r", " ", "c", "o", "n", "t", "e", "n", "t", " ", "f", "o", "r", " ">>
    [] s = "Create a homework assignment with 3 MCQs and 2 Short Answers for " ->
         <<"C", "r", "e", "a", "t", "e", " ", "a", " ", "h", "o", "m", "e", "w", "o", "r", "k", " ", "a", "s", "s", "i", "g", "n", "m", "e", "n", "t", " ", "w", "i", "t", "h", " ", "3", " ", "M", "C", "Q", "s", " ", "a", "n", "d", " ", "2", " ", "S", "h", "o", "r", "t", " ", "A", "n", "s", "w", "e", "r", "s", " ", "f", "o", "r", " ">>
    [] s = " grade " ->
         <<" ", "g", "r", "a", "d", "e", " ">>
    [] s = " about: " ->
         <<" ", "a", "b", "o", "u", "t", ":", " ">>
    [] s = "5th" ->
         <<"5", "t", "h">>
    [] s = "Science" ->
         <<"S", "c", "i", "e", "n", "c", "e">>
    [] s = "Art" ->
         <<"A", "r", "t">>
    [] s = "Photosynthesis" ->
         <<"P", "h", "o", "t", "o", "s", "y", "n", "t", "h", "e", "s", "i", "s">>
    [] s = "Lecture SLIDES on leaves" ->
         <<"L", "e", "c", "t", "u", "r", "e", " ", "S", "L", "I", "D", "E", "S", " ", "o", "n", " ", "l", "e", "a", "v", "e", "s">>
    [] s = "A wall poster of a leaf" ->
         <<"A", " ", "w", "a", "l", "l", " ", "p", "o", "s", "t", "e", "r", " ", "o", "f", " ", "a", " ", "l", "e", "a", "f">>
    [] s = "Assignment" ->
         <<"A", "s", "s", "i", "g", "n", "m", "e", "n", "t">>
    [] s = "TEACHER COPY - ANSWER KEY" ->
         <<"T", "E", "A", "C", "H", "E", "R", " ", "C", "O", "P", "Y", " ", "-", " ", "A", "N", "S", "W", "E", "R", " ", "K", "E", "Y">>
    [] s = "__________________________________________________" ->
         <<"_", "_", "_", "_", "_", "_", "_", "_", "_", "_", "_", "_", "_", "_", "_", "_", "_", "_", "_", "_", "_", "_", "_", "_", "_", "_", "_", "_", "_", "_", "_", "_", "_", "_", "_", "_", "_", "_", "_", "_", "_", "_", "_", "_", "_", "_", "_", "_", "_", "_">>
    [] s = "Q" ->
         <<"Q">>
    [] s = "1" ->
         <<"1">>
    [] s = "2" ->
         <<"2">>
    [] s = "3" ->
         <<"3">>
    [] s = ": " ->
         <<":", " ">>
    [] s = "[ ] " ->
         <<"[", " ", "]", " ">>
    [] s = "\n\n__________________________\n" ->
         <<"\n", "\n", "_", "_", "_", "_", "_", "_", "_", "_", "_", "_", "_", "_", "_", "_", "_", "_", "_", "_", "_", "_", "_", "_", "_", "_", "_", "_", "\n">>
    [] s = "\nAnswer: " ->
         <<"\n", "A", "n", "s", "w", "e", "r", ":", " ">>
    [] s = "\nExplanation: " ->
         <<"\n", "E", "x", "p", "l", "a", "n", "a", "t", "i", "o", "n", ":", " ">>
    [] s = "Rubric" ->
         <<"R", "u", "b", "r", "i", "c">>
    [] s = "Generated by ClassKit Studio - Educational Use Only" ->
         <<"G", "e", "n", "e", "r", "a", "t", "e", "d", " ", "b", "y", " ", "C", "l", "a", "s", "s", "K", "i", "t", " ", "S", "t", "u", "d", "i", "o", " ", "-", " ", "E", "d", "u", "c", "a", "t", "i", "o", "n", "a", "l", " ", "U", "s", "e", " ", "O", "n", "l", "y">>
    [] s = " | TEACHER COPY" ->
         <<" ", "|", " ", "T", "E", "A", "C", "H", "E", "R", " ", "C", "O", "P", "Y">>
    [] s = "Solar System Quiz" ->
         <<"S", "o", "l", "a", "r", " ", "S", "y", "s", "t", "e", "m", " ", "Q", "u", "i", "z">>
    [] s = "Answer all questions." ->
         <<"A", "n", "s", "w", "e", "r", " ", "a", "l", "l", " ", "q", "u", "e", "s", "t", "i", "o", "n", "s", ".">>
    [] s = "Which is the red planet?" ->
         <<"W", "h", "i", "c", "h", " ", "i", "s", " ", "t", "h", "e", " ", "r", "e", "d", " ", "p", "l", "a", "n", "e", "t", "?">>
    [] s = "Mars" ->
         <<"M", "a", "r", "s">>
    [] s = "Venus" ->
         <<"V", "e", "n", "u", "s">>
    [] s = "Iron oxide dust." ->
         <<"I", "r", "o", "n", " ", "o", "x", "i", "d", "e", " ", "d", "u", "s", "t", ".">>
    [] s = "Name the largest planet." ->
         <<"N", "a", "m", "e", " ", "t", "h", "e", " ", "l", "a", "r", "g", "e", "s", "t", " ", "p", "l", "a", "n", "e", "t", ".">>
    [] s = "Jupiter" ->
         <<"J", "u", "p", "i", "t", "e", "r">>
    [] s = "Gas giant." ->
         <<"G", "a", "s", " ", "g", "i", "a", "n", "t", ".">>
    [] s = "1pt per correct answer" ->
         <<"1", "p", "t", " ", "p", "e", "r", " ", "c", "o", "r", "r", "e", "c", "t", " ", "a", "n", "s", "w", "e", "r">>
    [] s = "Leaf Quiz" ->
         <<"L", "e", "a", "f", " ", "Q", "u", "i", "z">>
    [] s = "Answer: yes or no. Is a leaf green?" ->
         <<"A", "n", "s", "w", "e", "r", ":", " ", "y", "e", "s", " ", "o", "r", " ", "n", "o", ".", " ", "I", "s", " ", "a", " ", "l", "e", "a", "f", " ", "g", "r", "e", "e", "n", "?">>
    [] s = "yes" ->
         <<"y", "e", "s">>
    [] s = "no" ->
         <<"n", "o">>
    [] s = "Chlorophyll." ->
         <<"C", "h", "l", "o", "r", "o", "p", "h", "y", "l", "l", ".">>

\* the characters of an f-string given as its pieces, in order
RECURSIVE Text(_)
Text(pieces) ==
  IF pieces = <<>> THEN <<>> ELSE Chars(Head(pieces)) \o Text(Tail(pieces))

\* str(i) for the indices the model reaches
Str(i) == CASE i = 1 -> "1" [] i = 2 -> "2" [] i = 3 -> "3"

-----------------------------------------------------------------------------
(* JSON values and their stored text *)

EmptyDict == [j |-> "dict"]

\* the keys of a dict
Keys(d) == DOMAIN d \ {"j"}

\* d.get(k, default)
Get(d, k, default) == IF k \in Keys(d) THEN d[k] ELSE default

\* Python truthiness of a parsed JSON value
Truthy(v) == v.j = "dict" /\ Keys(v) # {}

\* json.dumps(v): the text of v.  A TEXT column holds such a text, or text
\* that is not JSON, or the empty string.
json_dumps(v) == [text |-> "json", v |-> v]

MalformedText == [text |-> "malformed"]
EmptyText == [text |-> "empty"]

\* json.loads(t) succeeds exactly on the text of a value
json_loads_raises(t) == t.text # "json"

json_loads(t) == t.v

-----------------------------------------------------------------------------
(* AI layer *)

MockSlides ==
  [j |-> "dict",
   deck_title |-> "Demo: The Solar System",
   slides |-> <<
     [j |-> "dict", type |-> "title", title |-> "The Solar System",
      bullets |-> <<>>, speaker_notes |-> "Intro"],
     [j |-> "dict", type |-> "content", title |-> "Inner Planets",
      bullets |-> <<"Mercury", "Venus", "Earth", "Mars">>,
      speaker_notes |-> "Rocky planets."],
     [j |-> "dict", type |-> "summary", title |-> "Review",
      bullets |-> <<"8 Planets", "Sun is a star">>,
      speaker_notes |-> "Wrap up."] >>]

MockPoster ==
  [j |-> "dict",
   poster_title |-> "Lab Safety Rules",
   sections |-> <<
     [j |-> "dict", heading |-> "Protection",
      body_bullets |-> <<"Wear Goggles", "Use Gloves">>],
     [j |-> "dict", heading |-> "Behavior",
      body_bullets |-> <<"No running", "No eating">>] >>,
   footer_callout |-> "Stay Safe!"]

MockAssignment ==
  [j |-> "dict",
   assignment_title |-> "Solar System Quiz",
   instructions |-> "Answer all questions.",
   questions |-> <<
     [j |-> "dict", type |-> "mcq", prompt |-> "Which is the red planet?",
      choices |-> <<"Mars", "Venus">>, answer |-> "Mars",
      explanation |-> "Iron oxide dust."],
     [j |-> "dict", type |-> "short", prompt |-> "Name the largest planet.",
      choices |-> <<>>, answer |-> "Jupiter", explanation |-> "Gas giant."] >>,
   rubric |-> <<"1pt per correct answer">>]

get_mock_data(prompt_type) ==
  CASE prompt_type = "slides" -> MockSlides
    [] prompt_type = "poster" -> MockPoster
    [] prompt_type = "assignment" -> MockAssignment
    [] OTHER -> EmptyDict

Kinds == {"slides", "poster", "assignment"}

\* the project field a Generate button writes
JsonField(kind) ==
  CASE kind = "slides" -> "slides_json"
    [] kind = "poster" -> "poster_json"
    [] kind = "assignment" -> "assignment_json"

\* the prompt each tab of render_teacher_view builds, as the pieces of its f-string
TeacherPrompt(kind, p) ==
  CASE kind = "slides" ->
         <<"Create a slide deck for ", p.grade, " grade ", p.subject,
           " about: ", p.source_notes>>
    [] kind = "poster" ->
         <<"Create a one-page educational poster content for ", p.grade,
           " grade ", p.subject, " about: ", p.source_notes>>
    [] kind = "assignment" ->
         <<"Create a homework assignment with 3 MCQs and 2 Short Answers for ",
           p.grade, " grade ", p.subject, " about: ", p.source_notes>>

(* What model.generate_content does is outside the program: it raises, or it   *)
(* returns a text.  The text is modelled by its lines after strip(): a line is *)
(* a markdown fence, a whole JSON text, or prose.                              *)
FenceLine == [ln |-> "fence"]
ProseLine == [ln |-> "prose"]
JsonLine(v) == [ln |-> "json", v |-> v]

BackendRaises == [raises |-> TRUE]
BackendText(lines) == [raises |-> FALSE, lines |-> lines]

\* lines 177-181: drop a leading fence line and then a trailing one
StripFences(lines) ==
  IF lines # <<>> /\ lines[1].ln = "fence"
  THEN LET rest == Tail(lines)
       IN  IF rest[Len(rest)].ln = "fence"
           THEN SubSeq(rest, 1, Len(rest) - 1)
           ELSE rest
  ELSE lines

\* lines[-1] of an empty list raises IndexError
StripFencesRaises(lines) ==
  lines # <<>> /\ lines[1].ln = "fence" /\ Tail(lines) = <<>>

\* json.loads("\n".join(lines)) parses exactly one JSON text
JoinedParses(lines) == Len(lines) = 1 /\ lines[1].ln = "json"

\* the try block of call_gemini_json raised (and st.error reported it)
GenerationFailed(resp) ==
  \/ resp.raises
  \/ StripFencesRaises(resp.lines)
  \/ ~JoinedParses(StripFences(resp.lines))

\* call_gemini_json without a key: keyword matching on the prompt
MockByKeyword(prompt) ==
  LET lowered == Lower(Text(prompt))
  IN  IF Contains(lowered, Chars("slides")) THEN get_mock_data("slides")
      ELSE IF Contains(lowered, Chars("poster")) THEN get_mock_data("poster")
      ELSE get_mock_data("assignment")

\* call_gemini_json(prompt, schema_hint), resp being what the backend does if called
call_gemini_json(key, prompt, resp) ==
  IF ~TruthyStr(key)
  THEN MockByKeyword(prompt)
  ELSE IF GenerationFailed(resp)
       THEN EmptyDict
       ELSE StripFences(resp.lines)[1].v

-----------------------------------------------------------------------------
(* Database layer: table projects is the sequence of its rows in rowid order *)

\* None where a dict is expected
NoneDict == [j |-> "None"]

\* the indices of the rows WHERE col = value
RowsWhere(rows, col, value) == {i \in 1..Len(rows) : rows[i][col] = value}

\* cursor.fetchone() over those rows
FirstRow(rows, col, value) ==
  rows[CHOOSE i \in RowsWhere(rows, col, value) :
         \A k \in RowsWhere(rows, col, value) : i <= k]

\* the UPDATE statement of save_project
UpdateRow(r, data) ==
  [r EXCEPT !.title = data.title,
            !.subject = data.subject,
            !.grade = data.grade,
            !.source_notes = data.source_notes,
            !.slides_json = json_dumps(Get(data, "slides_json", EmptyDict)),
            !.poster_json = json_dumps(Get(data, "poster_json", EmptyDict)),
            !.assignment_json = json_dumps(Get(data, "assignment_json", EmptyDict))]

\* the INSERT statement of save_project
InsertRow(data, now) ==
  [id |-> data.id,
   created_at |-> now,
   title |-> data.title,
   subject |-> data.subject,
   grade |-> data.grade,
   source_notes |-> data.source_notes,
   slides_json |-> json_dumps(Get(data, "slides_json", EmptyDict)),
   poster_json |-> json_dumps(Get(data, "poster_json", EmptyDict)),
   assignment_json |-> json_dumps(Get(data, "assignment_json", EmptyDict)),
   teacher_token |-> data.teacher_token,
   student_token |-> data.student_token]

\* save_project as a whole-row replace (INSERT OR REPLACE): tokens and created_at
\* of an existing row are rewritten
save_project_replacing(rows, data, now) ==
  IF RowsWhere(rows, "id", data.id) # {}
  THEN [i \in 1..Len(rows) |->
          IF rows[i].id = data.id THEN InsertRow(data, now) ELSE rows[i]]
  ELSE Append(rows, InsertRow(data, now))

\* save_project(data) at time now: the table afterwards
save_project(rows, data, now) ==
  IF RowsWhere(rows, "id", data.id) # {}
  THEN [i \in 1..Len(rows) |->
          IF rows[i].id = data.id THEN UpdateRow(rows[i], data) ELSE rows[i]]
  ELSE Append(rows, InsertRow(data, now))

\* a TEXT column read as a Python value is falsy when it is the empty string
TextTruthy(t) == t.text # "empty"

\* json.loads(col) if col else {}
ParseColumn(t) == IF TextTruthy(t) THEN json_loads(t) ELSE EmptyDict

ParseColumnRaises(t) == TextTruthy(t) /\ json_loads_raises(t)

JsonColumns == {"slides_json", "poster_json", "assignment_json"}

\* load_project(project_id) raises json.JSONDecodeError
load_project_raises(rows, project_id) ==
  /\ RowsWhere(rows, "id", project_id) # {}
  /\ \E col \in JsonColumns :
        ParseColumnRaises(FirstRow(rows, "id", project_id)[col])

\* load_project(project_id) when it returns
load_project(rows, project_id) ==
  IF RowsWhere(rows, "id", project_id) # {}
  THEN LET d == FirstRow(rows, "id", project_id)
       IN  [d EXCEPT !.slides_json = ParseColumn(d.slides_json),
                     !.poster_json = ParseColumn(d.poster_json),
                     !.assignment_json = ParseColumn(d.assignment_json)]
  ELSE NoneDict

TokenColumn(mode) == IF mode = "student" THEN "student_token" ELSE "teacher_token"

get_project_by_token_raises(rows, token, mode) ==
  /\ RowsWhere(rows, TokenColumn(mode), token) # {}
  /\ load_project_raises(rows, FirstRow(rows, TokenColumn(mode), token).id)

\* get_project_by_token(token, mode) when it returns
get_project_by_token(rows, token, mode) ==
  IF RowsWhere(rows, TokenColumn(mode), token) # {}
  THEN load_project(rows, FirstRow(rows, TokenColumn(mode), token).id)
  ELSE NoneDict

\* SELECT id ... ORDER BY created_at DESC: the ids, most recent first
RECURSIVE ListIds(_)
ListIds(rows) ==
  IF rows = <<>> THEN <<>>
  ELSE LET i == CHOOSE k \in 1..Len(rows) :
                  \A m \in 1..Len(rows) :
                     \/ rows[k].created_at > rows[m].created_at
                     \/ (rows[k].created_at = rows[m].created_at /\ k <= m)
       IN  <<rows[i].id>> \o
           ListIds(SubSeq(rows, 1, i - 1) \o SubSeq(rows, i + 1, Len(rows)))

-----------------------------------------------------------------------------
(* Export: the .docx of an assignment, as the text runs it holds in order.  *)
(* A run is the list of pieces of the string the code passes to python-docx. *)

\* an f-string field: None prints as "None"
Fmt(x) == IF x = None THEN "None" ELSE x

RECURSIVE ChoiceRuns(_)
ChoiceRuns(choices) ==
  IF choices = <<>> THEN <<>>
  ELSE << <<"[ ] ", Head(choices)>> >> \o ChoiceRuns(Tail(choices))

\* the loop body with the answer paragraph outside "if include_answers"
QuestionRunsAnswersAlways(q, idx, include_answers) ==
  << <<"Q", Str(idx), ": ", Fmt(Get(q, "prompt", None))>> >>
  \o (IF Get(q, "type", None) = "mcq"
        THEN ChoiceRuns(Get(q, "choices", <<>>))
      ELSE IF Get(q, "type", None) = "short"
        THEN << <<"\n\n__________________________\n">> >>
      ELSE <<>>)
  \o << <<"\nAnswer: ", Fmt(Get(q, "answer", None))>>,
        <<"\nExplanation: ", Fmt(Get(q, "explanation", None))>> >>

\* the body of the loop over the questions, lines 285-296
QuestionRuns(q, idx, include_answers) ==
  << <<"Q", Str(idx), ": ", Fmt(Get(q, "prompt", None))>> >>
  \o (IF Get(q, "type", None) = "mcq"
        THEN ChoiceRuns(Get(q, "choices", <<>>))
      ELSE IF Get(q, "type", None) = "short"
        THEN << <<"\n\n__________________________\n">> >>
      ELSE <<>>)
  \o (IF include_answers
        THEN << <<"\nAnswer: ", Fmt(Get(q, "answer", None))>>,
                <<"\nExplanation: ", Fmt(Get(q, "explanation", None))>> >>
        ELSE <<>>)

RECURSIVE QuestionsRuns(_, _, _)
QuestionsRuns(qs, idx, include_answers) ==
  IF qs = <<>> THEN <<>>
  ELSE QuestionRuns(Head(qs), idx, include_answers)
       \o QuestionsRuns(Tail(qs), idx + 1, include_answers)

RECURSIVE RubricRuns(_)
RubricRuns(rubric) ==
  IF rubric = <<>> THEN <<>>
  ELSE << <<Head(rubric)>> >> \o RubricRuns(Tail(rubric))

generate_docx_assignment(data, include_answers) ==
  << <<Get(data, "assignment_title", "Assignment")>> >>
  \o (IF include_answers THEN << <<"TEACHER COPY - ANSWER KEY">> >> ELSE <<>>)
  \o << <<Get(data, "instructions", "")>>,
        <<"__________________________________________________">> >>
  \o QuestionsRuns(Get(data, "questions", <<>>), 1, include_answers)
  \o (IF include_answers /\ "rubric" \in Keys(data)
        THEN << <<"Rubric">> >> \o RubricRuns(data.rubric)
        ELSE <<>>)
  \o (IF include_answers
        THEN << <<"Generated by ClassKit Studio - Educational Use Only",
                  " | TEACHER COPY">> >>
        ELSE << <<"Generated by ClassKit Studio - Educational Use Only">> >>)

\* the literal occurs in the text of some run of the document
DocContains(runs, literal) ==
  \E i \in 1..Len(runs) : Contains(Text(runs[i]), Chars(literal))

\* a call of generate_docx_assignment made while rendering a view
DocxCall(data, include_answers) ==
  [include_answers |-> include_answers,
   runs |-> generate_docx_assignment(data, include_answers)]

\* the generate_docx_assignment calls of render_student_view, lines 420-436
StudentDocxCalls(p) ==
  IF Truthy(p.assignment_json)
  THEN <<DocxCall(p.assignment_json, FALSE)>>
  ELSE <<>>

\* the generate_docx_assignment calls of render_teacher_view, lines 397-407
TeacherDocxCalls(p) ==
  IF Truthy(p.assignment_json)
  THEN <<DocxCall(p.assignment_json, FALSE), DocxCall(p.assignment_json, TRUE)>>
  ELSE <<>>

-----------------------------------------------------------------------------
(* App: one script run of main() per user interaction *)

\* the browser sessions there may be, and those open in a behaviour
AllSessions == {"s1", "s2"}
Sessions == DOMAIN session_state

\* str(uuid.uuid4()): the n-th call returns a value no other call returns
Uuid(n) ==
  CASE n = 1 -> "uuid-01" [] n = 2 -> "uuid-02" [] n = 3 -> "uuid-03"
    [] n = 4 -> "uuid-04" [] n = 5 -> "uuid-05" [] n = 6 -> "uuid-06"
    [] n = 7 -> "uuid-07" [] n = 8 -> "uuid-08" [] n = 9 -> "uuid-09"
    [] n = 10 -> "uuid-10" [] n = 11 -> "uuid-11" [] n = 12 -> "uuid-12"

\* the sidebar without its else branch: a flag once set stays set
SidebarSticky(is_authenticated, mode, code) ==
  IF mode = "Teacher" /\ code = TEACHER_CODE THEN True ELSE is_authenticated

\* the sidebar, lines 461-473: the value of st.session_state['is_authenticated']
\* once it has run.  code is None in Student mode, where no text_input exists.
Sidebar(is_authenticated, mode, code) ==
  IF mode = "Teacher"
  THEN IF code = TEACHER_CODE THEN True ELSE False
  ELSE is_authenticated

\* the routing of main(), lines 481-542
Route(token_param, mode, is_authenticated) ==
  IF TruthyStr(token_param) THEN "student"
  ELSE IF mode = "Teacher" /\ is_authenticated = True THEN "teacher"
  ELSE IF mode = "Teacher" THEN "enter_code"
  ELSE "welcome"

\* the checks without the safety acknowledgment
FormValidTitleOnly(ev) == TruthyStr(ev.title)

\* the checks on a submitted creation form, lines 504-508
FormValid(ev) == ev.safety /\ TruthyStr(ev.title)

\* proj_data with one uuid4 value used for both tokens
NewProjectOneToken(ev, n) ==
  [id |-> Uuid(n + 1),
   title |-> ev.title,
   subject |-> ev.subject,
   grade |-> ev.grade,
   source_notes |-> ev.notes,
   teacher_token |-> Uuid(n + 2),
   student_token |-> Uuid(n + 2)]

\* proj_data of a creation, lines 509-515; n uuid4 calls have been made before
NewProject(ev, n) ==
  [id |-> Uuid(n + 1),
   title |-> ev.title,
   subject |-> ev.subject,
   grade |-> ev.grade,
   source_notes |-> ev.notes,
   teacher_token |-> Uuid(n + 2),
   student_token |-> Uuid(n + 3)]

\* the ids in the table
Ids(rows) == {rows[i].id : i \in 1..Len(rows)}

\* st.selectbox: the option chosen, the first option when nothing valid is chosen
Selected(rows, sel) == IF sel \in Ids(rows) THEN sel ELSE ListIds(rows)[1]

\* active_id, line 531
ActiveId(current_project_id, sel_id) ==
  IF current_project_id # None THEN current_project_id ELSE sel_id

\* what the first save_project call for an id wrote
RecordFirst(fw, data, now) ==
  IF \E w \in fw : w.id = data.id THEN fw
  ELSE fw \cup {[id |-> data.id, created_at |-> now,
                 teacher_token |-> data.teacher_token,
                 student_token |-> data.student_token]}

NoEvent == [e |-> "none"]
NoRequest == [token_param |-> None, mode |-> None, code |-> None, sel |-> None]

\* the user interactions that start a script run
TokenParams ==
  {None, "", "uuid-00"} \cup {db[i].student_token : i \in 1..Len(db)}
Modes == {"Teacher", "Student"}
Codes(mode) == IF mode = "Teacher" THEN {"", TEACHER_CODE} ELSE {None}
Selections == IF db = <<>> THEN {None} ELSE Ids(db)
FormEvents ==
  {[e |-> "form", title |-> t, subject |-> "Science", grade |-> "5th",
    notes |-> n, safety |-> c] :
     t \in {"", "Photosynthesis"},
     n \in {"Photosynthesis"},
     c \in BOOLEAN}
ClickEvents == {[e |-> "click", kind |-> k] : k \in Kinds}

(* A script run of session s up to its end, or up to the call of            *)
(* call_gemini_json when a Generate button was clicked.                     *)
main(s, token_param, mode, code, sel, ev) ==
  /\ s \in Sessions
  /\ pc[s] = "idle"
  /\ LET auth == Sidebar(session_state[s].is_authenticated, mode, code)
           route == Route(token_param, mode, auth)
           submitted == route = "teacher" /\ ev.e = "form"
           creates == submitted /\ FormValid(ev)
           proj_data == NewProject(ev, uuid_calls)
           rows == IF creates THEN save_project(db, proj_data, clock) ELSE db
           cur == IF creates THEN proj_data.id
                  ELSE session_state[s].current_project_id
           \* the run, or the rerun that follows a creation, reaches the selector
           listed == route = "teacher" /\ rows # <<>>
           active_id == ActiveId(cur, Selected(rows, sel))
           raises == \/ route = "student"
                        /\ get_project_by_token_raises(rows, token_param, "student")
                     \/ listed /\ load_project_raises(rows, active_id)
           loaded == IF raises THEN NoneDict
                     ELSE IF route = "student"
                       THEN get_project_by_token(rows, token_param, "student")
                     ELSE IF listed THEN load_project(rows, active_id)
                     ELSE NoneDict
           clicked == route = "teacher" /\ ev.e = "click" /\ loaded # NoneDict
           view == IF raises THEN "exception"
                   ELSE IF route = "student"
                     THEN IF loaded # NoneDict THEN "student" ELSE "invalid_token"
                   ELSE IF route = "teacher" THEN "dashboard"
                   ELSE route
           outcome == IF ev.e = "form" /\ route = "teacher"
                        THEN IF ~ev.safety THEN "blocked_safety"
                             ELSE IF ev.title = "" THEN "blocked_title"
                             ELSE "created"
                      ELSE IF clicked THEN "gen_started"
                      ELSE "none"
       IN  /\ session_state' = [session_state EXCEPT
                                  ![s] = [is_authenticated |-> auth,
                                          current_project_id |-> cur]]
           /\ db' = rows
           /\ uuid_calls' = IF creates THEN uuid_calls + 3 ELSE uuid_calls
           /\ clock' = IF creates THEN clock + 1 ELSE clock
           /\ first_write' = IF creates THEN RecordFirst(first_write, proj_data, clock)
                             ELSE first_write
           /\ pc' = [pc EXCEPT ![s] = IF clicked THEN "generating" ELSE "idle"]
           /\ project' = [project EXCEPT ![s] = IF clicked THEN loaded ELSE NoneDict]
           /\ gen_kind' = [gen_kind EXCEPT ![s] = IF clicked THEN ev.kind ELSE None]
           /\ request' = [request EXCEPT
                            ![s] = IF clicked
                                   THEN [token_param |-> token_param, mode |-> mode,
                                         code |-> code, sel |-> sel]
                                   ELSE NoRequest]
           /\ clicks' = IF clicked THEN clicks + 1 ELSE clicks
           /\ last' = [session |-> s, token_param |-> token_param, mode |-> mode,
                       code |-> code,
                       sel |-> IF listed /\ ~raises THEN Selected(rows, sel) ELSE None,
                       view |-> view,
                       project_id |-> IF loaded # NoneDict THEN loaded.id ELSE None,
                       outcome |-> outcome]
           /\ UNCHANGED <<GOOGLE_API_KEY, probe>>

\* a run with no button pressed: a page load, a mode change, a code entered
Visit(s) ==
  \E token_param \in TokenParams, mode \in Modes, sel \in Selections :
    \E code \in Codes(mode) :
       main(s, token_param, mode, code, sel, NoEvent)

\* "Create Project" pressed; the form exists only on the dashboard
SubmitForm(s) ==
  \E sel \in Selections, ev \in FormEvents :
     /\ Len(db) < MaxProjects
     /\ main(s, None, "Teacher", TEACHER_CODE, sel, ev)

\* a Generate button pressed; the buttons exist only in the teacher view
ClickGenerate(s) ==
  \E sel \in Selections, ev \in ClickEvents :
     /\ clicks < MaxGenerations
     /\ db # <<>>
     /\ main(s, None, "Teacher", TEACHER_CODE, sel, ev)

\* documents a backend may return: one of each schema, and one of none
AltDoc(kind) ==
  CASE kind = "slides" ->
         [j |-> "dict", deck_title |-> "Leaves",
          slides |-> << [j |-> "dict", type |-> "title", title |-> "Leaves",
                         bullets |-> <<>>, speaker_notes |-> "Intro"] >>]
    [] kind = "poster" ->
         [j |-> "dict", poster_title |-> "Leaves",
          sections |-> << [j |-> "dict", heading |-> "Green",
                           body_bullets |-> <<"Chlorophyll">>] >>,
          footer_callout |-> "Look closer"]
    [] kind = "assignment" ->
         [j |-> "dict", assignment_title |-> "Leaf Quiz",
          instructions |-> "Answer all questions.",
          questions |-> << [j |-> "dict", type |-> "short",
                            prompt |-> "Name the largest planet.",
                            choices |-> <<>>, answer |-> "Jupiter",
                            explanation |-> "Gas giant."] >>,
          rubric |-> <<"1pt per correct answer">>]

ErrorDoc == [j |-> "dict", error |-> "quota exceeded"]
JsonNull == [j |-> "null"]

\* without a key the backend is not called
NoBackendCall == [raises |-> FALSE, lines |-> <<>>]

\* what the backend does when call_gemini_json calls it
BackendResponses(kind) ==
  {BackendRaises,
   BackendText(<<ProseLine>>),
   BackendText(<<FenceLine>>),
   BackendText(<<JsonLine(AltDoc(kind))>>),
   BackendText(<<FenceLine, JsonLine(AltDoc(kind)), FenceLine>>),
   BackendText(<<FenceLine, JsonLine(AltDoc(kind))>>),
   BackendText(<<JsonLine(EmptyDict)>>),
   BackendText(<<JsonLine(JsonNull)>>),
   BackendText(<<JsonLine(ErrorDoc)>>)}

\* the result stored without the "if res:" test
ShouldSaveAlways(res) == TRUE

\* "if res:", lines 338, 364, 391
ShouldSave(res) == Truthy(res)

(* call_gemini_json returns to render_teacher_view in session s: the result  *)
(* is stored and the script reruns, or the run goes on with the old project. *)
GenerateReturn(s) ==
  /\ s \in Sessions
  /\ pc[s] = "generating"
  /\ \E resp \in IF TruthyStr(GOOGLE_API_KEY)
                  THEN BackendResponses(gen_kind[s])
                  ELSE {NoBackendCall} :
    LET kind == gen_kind[s]
        res == call_gemini_json(GOOGLE_API_KEY, TeacherPrompt(kind, project[s]), resp)
        failed == TruthyStr(GOOGLE_API_KEY) /\ GenerationFailed(resp)
        data == [project[s] EXCEPT ![JsonField(kind)] = res]
    IN  /\ IF ShouldSave(res)
           THEN /\ db' = save_project(db, data, clock)
                /\ clock' = clock + 1
                /\ first_write' = RecordFirst(first_write, data, clock)
           ELSE UNCHANGED <<db, clock, first_write>>
        /\ pc' = [pc EXCEPT ![s] = "idle"]
        /\ project' = [project EXCEPT ![s] = NoneDict]
        /\ gen_kind' = [gen_kind EXCEPT ![s] = None]
        /\ request' = [request EXCEPT ![s] = NoRequest]
        /\ last' = [session |-> s, token_param |-> request[s].token_param,
                    mode |-> request[s].mode, code |-> request[s].code,
                    sel |-> Selected(db, request[s].sel), view |-> "dashboard",
                    project_id |-> project[s].id,
                    outcome |-> IF failed THEN "gen_failed"
                                ELSE IF Truthy(res) THEN "gen_saved"
                                ELSE "gen_empty"]
        /\ UNCHANGED <<GOOGLE_API_KEY, uuid_calls, session_state, clicks, probe>>

-----------------------------------------------------------------------------
(* The application *)

NoProbe == [op |-> "none"]
NoRun == [session |-> None, token_param |-> None, mode |-> None, code |-> None,
          sel |-> None, view |-> "none", project_id |-> None, outcome |-> "none"]

\* the state after load: an empty table, the given browser sessions just opened
Start(sessions) ==
  /\ GOOGLE_API_KEY \in {None, "key"}
  /\ db = <<>>
  /\ uuid_calls = 0
  /\ session_state = [s \in sessions |->
                        [is_authenticated |-> None, current_project_id |-> None]]
  /\ pc = [s \in sessions |-> "idle"]
  /\ project = [s \in sessions |-> NoneDict]
  /\ gen_kind = [s \in sessions |-> None]
  /\ request = [s \in sessions |-> NoRequest]
  /\ clicks = 0
  /\ clock = 1
  /\ last = NoRun
  /\ first_write = {}
  /\ probe = NoProbe

Init == Start({"s1", "s2"})

\* visitors and teachers: page loads, codes, links, project creation
Next ==
  \E s \in AllSessions :
    \/ Visit(s)
    \/ SubmitForm(s)

Spec == Init /\ [][Next]_vars

\* teachers at work on the dashboard: creation and generation
NextGenerate ==
  \E s \in AllSessions :
    \/ SubmitForm(s)
    \/ ClickGenerate(s)
    \/ GenerateReturn(s)

\* one browser session
InitOneSession == Start({"s1"})

SpecGenerate == InitOneSession /\ [][NextGenerate]_vars

\* two teachers at work at once: each browser session runs its script in a
\* thread of its own, and a run waiting in call_gemini_json lets the other go on
SpecConcurrent == Init /\ [][NextGenerate]_vars

-----------------------------------------------------------------------------
(* The record store on its own: save_project applied to any project dict *)

SaveInputs ==
  {[id |-> i, title |-> t, subject |-> "Science", grade |-> "5th",
    source_notes |-> "Photosynthesis", slides_json |-> d,
    teacher_token |-> tt, student_token |-> st] :
     i \in {"uuid-01", "uuid-04"},
     t \in {"Photosynthesis", "Leaves"},
     d \in {EmptyDict, MockSlides},
     tt \in {"uuid-02", "uuid-05"},
     st \in {"uuid-03", "uuid-06"}}

ApplySave ==
  \E data \in SaveInputs :
     /\ clock <= MaxSaves
     /\ db' = save_project(db, data, clock)
     /\ clock' = clock + 1
     /\ first_write' = RecordFirst(first_write, data, clock)
     /\ probe' = [op |-> "save_project", data |-> data,
                  existed |-> data.id \in Ids(db)]
     /\ UNCHANGED <<GOOGLE_API_KEY, uuid_calls, session_state, pc, project,
                    gen_kind, request, clicks, last>>

NextStore == ApplySave

SpecStore == InitOneSession /\ [][NextStore]_vars

-----------------------------------------------------------------------------
(* The functions on their own: each action applies one to inputs of a      *)
(* bounded set and records the application in probe.                       *)

\* one application per behaviour; nothing else changes
Applying ==
  /\ probe = NoProbe
  /\ UNCHANGED <<GOOGLE_API_KEY, db, uuid_calls, session_state, pc, project,
                 gen_kind, request, clicks, clock, last, first_write>>

Contexts ==
  {[grade |-> "5th", subject |-> sj, source_notes |-> n] :
     sj \in {"Science", "Art"},
     n \in {"Photosynthesis", "Lecture SLIDES on leaves",
            "A wall poster of a leaf"}}

\* generate(kind, context): the call a Generate button of the teacher view makes
ApplyGenerate ==
  /\ Applying
  /\ \E kind \in Kinds, context \in Contexts :
       \E resp \in IF TruthyStr(GOOGLE_API_KEY)
                   THEN BackendResponses(kind) ELSE {NoBackendCall} :
          probe' = [op |-> "call_gemini_json", kind |-> kind, context |-> context,
                    failed |-> TruthyStr(GOOGLE_API_KEY) /\ GenerationFailed(resp),
                    out |-> call_gemini_json(GOOGLE_API_KEY,
                                             TeacherPrompt(kind, context), resp)]

\* all sequences over S of length at most n
RECURSIVE SeqsUpTo(_, _)
SeqsUpTo(S, n) ==
  IF n = 0 THEN {<<>>}
  ELSE LET shorter == SeqsUpTo(S, n - 1)
       IN  shorter \cup {Append(q, x) : q \in shorter, x \in S}

Questions ==
  {MockAssignment.questions[1],
   MockAssignment.questions[2],
   [j |-> "dict", type |-> "short",
    prompt |-> "Answer: yes or no. Is a leaf green?", choices |-> <<>>,
    answer |-> "yes", explanation |-> "Chlorophyll."],
   [j |-> "dict", prompt |-> "Name the largest planet."]}

\* a dict with the keys whose value is given
AssignmentDoc(title, instructions, qopt, ropt) ==
  [k \in {"j"} \cup (IF title # None THEN {"assignment_title"} ELSE {})
               \cup (IF instructions # None THEN {"instructions"} ELSE {})
               \cup (IF qopt.present THEN {"questions"} ELSE {})
               \cup (IF ropt.present THEN {"rubric"} ELSE {}) |->
     CASE k = "j" -> "dict"
       [] k = "assignment_title" -> title
       [] k = "instructions" -> instructions
       [] k = "questions" -> qopt.v
       [] k = "rubric" -> ropt.v]

Absent == [present |-> FALSE]
Present(v) == [present |-> TRUE, v |-> v]

AssignmentDocs ==
  {AssignmentDoc(t, i, q, r) :
     t \in {None, "Leaf Quiz"},
     i \in {None, "Answer all questions."},
     q \in {Absent} \cup {Present(qs) : qs \in SeqsUpTo(Questions, MaxQuestions)},
     r \in {Absent, Present(<<"1pt per correct answer">>)}}

ApplyRender ==
  /\ Applying
  /\ \E data \in AssignmentDocs, include_answers \in BOOLEAN :
        probe' = [op |-> "generate_docx_assignment", data |-> data,
                  include_answers |-> include_answers,
                  runs |-> generate_docx_assignment(data, include_answers)]

ApplyStudentView ==
  /\ Applying
  /\ \E data \in AssignmentDocs :
        probe' = [op |-> "render_student_view", data |-> data,
                  calls |-> StudentDocxCalls([assignment_json |-> data])]

StoredTexts(kind) ==
  {EmptyText, MalformedText, json_dumps(EmptyDict), json_dumps(get_mock_data(kind))}

StoredRows ==
  {[id |-> "uuid-01", created_at |-> 1, title |-> "Photosynthesis",
    subject |-> "Science", grade |-> "5th", source_notes |-> "Photosynthesis",
    slides_json |-> a, poster_json |-> b, assignment_json |-> c,
    teacher_token |-> "uuid-02", student_token |-> "uuid-03"] :
     a \in StoredTexts("slides"), b \in StoredTexts("poster"),
     c \in StoredTexts("assignment")}

ApplyLoad ==
  /\ Applying
  /\ \E row \in StoredRows :
        probe' = [op |-> "load_project", row |-> row,
                  raises |-> load_project_raises(<<row>>, row.id),
                  out |-> IF load_project_raises(<<row>>, row.id) THEN NoneDict
                          ELSE load_project(<<row>>, row.id)]

ApplyGetByToken ==
  /\ Applying
  /\ \E row \in StoredRows, token \in {"uuid-03", "uuid-00"} :
        probe' = [op |-> "get_project_by_token", row |-> row, token |-> token,
                  raises |-> get_project_by_token_raises(<<row>>, token, "student"),
                  out |-> IF get_project_by_token_raises(<<row>>, token, "student")
                          THEN NoneDict
                          ELSE get_project_by_token(<<row>>, token, "student")]

NextFunctions ==
  \/ ApplyGenerate
  \/ ApplyRender
  \/ ApplyStudentView
  \/ ApplyLoad
  \/ ApplyGetByToken

SpecFunctions == InitOneSession /\ [][NextFunctions]_vars

-----------------------------------------------------------------------------
(* Properties *)

\* a script run has ended, or stopped in call_gemini_json
Ran == last.view # "none"

(* C1: in a run of main() whose request carries a token parameter, the      *)
(* outcome is the student view of the one project whose student_token is    *)
(* that parameter, or the invalid-token message; never the dashboard.       *)
C1_TokenPresentMeansStudentRoute ==
  (Ran /\ last.token_param # None) =>
     /\ last.view \in {"student", "invalid_token"}
     /\ last.view = "student" =>
          \E i \in 1..Len(db) :
             /\ db[i].student_token = last.token_param
             /\ db[i].id = last.project_id
             /\ RowsWhere(db, "student_token", last.token_param) = {i}

(* C2: without GOOGLE_API_KEY, generating a document of a kind with the     *)
(* prompt of the teacher view returns the canned example of that kind, for  *)
(* every context; for slides the deck "Demo: The Solar System" of 3 slides. *)
C2_MockOfRequestedKind ==
  (probe.op = "call_gemini_json" /\ ~TruthyStr(GOOGLE_API_KEY)) =>
     /\ probe.out = get_mock_data(probe.kind)
     /\ probe.kind = "slides" =>
          /\ Get(probe.out, "deck_title", None) = "Demo: The Solar System"
          /\ Len(Get(probe.out, "slides", <<>>)) = 3

(* C3: after any sequence of save_project calls every stored row carries    *)
(* the teacher_token, student_token and created_at written by the first     *)
(* call for its id, and no two rows have the same id.                       *)
C3_FirstWriteKept ==
  /\ \A i \in 1..Len(db) :
        \E w \in first_write :
           /\ w.id = db[i].id
           /\ w.teacher_token = db[i].teacher_token
           /\ w.student_token = db[i].student_token
           /\ w.created_at = db[i].created_at
  /\ \A i, k \in 1..Len(db) : db[i].id = db[k].id => i = k

\* a later call for a stored id has passed other tokens, at a later time
C3_Witness ==
  /\ probe.op = "save_project"
  /\ probe.existed
  /\ \E i \in 1..Len(db) :
        /\ db[i].id = probe.data.id
        /\ db[i].teacher_token # probe.data.teacher_token
        /\ db[i].student_token # probe.data.student_token
        /\ db[i].created_at + 1 < clock

(* C4: a generation step that fails (the backend raises, or its text does   *)
(* not parse) leaves the table as it was: save_project is not called.       *)
C4_FailedGenerationStoresNothing ==
  [][last'.outcome = "gen_failed" => (db' = db /\ clock' = clock)]_vars

\* a generation has failed on a project that holds an earlier document
C4_Witness ==
  /\ last.outcome = "gen_failed"
  /\ \E i \in 1..Len(db) :
        /\ db[i].id = last.project_id
        /\ \E col \in JsonColumns : Truthy(ParseColumn(db[i][col]))

\* the texts of an assignment that both renderings show
VisibleTexts(data) ==
  LET qs == Get(data, "questions", <<>>)
  IN  {Get(data, "assignment_title", "Assignment"), Get(data, "instructions", "")}
      \cup {Fmt(Get(qs[i], "prompt", None)) : i \in 1..Len(qs)}
      \cup UNION {IF Get(qs[i], "type", None) = "mcq"
                  THEN {Get(qs[i], "choices", <<>>)[k] :
                          k \in 1..Len(Get(qs[i], "choices", <<>>))}
                  ELSE {} : i \in 1..Len(qs)}

VisibleTextHas(data, literal) ==
  \E t \in VisibleTexts(data) : Contains(Chars(t), Chars(literal))

(* C5, as amended: the student rendering (include_answers=False) contains   *)
(* "Answer:" only where the title, the instructions, a prompt or a choice   *)
(* of the document contains it; the answer key contains it whenever there   *)
(* is a question; the student view renders with include_answers=False only. *)
C5_AnswersOnlyInKey ==
  /\ probe.op = "generate_docx_assignment" =>
       /\ (~probe.include_answers /\ ~VisibleTextHas(probe.data, "Answer:"))
             => ~DocContains(probe.runs, "Answer:")
       /\ (probe.include_answers /\ Get(probe.data, "questions", <<>>) # <<>>)
             => DocContains(probe.runs, "Answer:")
  /\ probe.op = "render_student_view" =>
       \A i \in 1..Len(probe.calls) :
          /\ ~probe.calls[i].include_answers
          /\ ~VisibleTextHas(probe.data, "Answer:")
                => ~DocContains(probe.calls[i].runs, "Answer:")

\* a student rendering of questions that have answers
C5_Witness ==
  /\ probe.op = "generate_docx_assignment"
  /\ ~probe.include_answers
  /\ ~VisibleTextHas(probe.data, "Answer:")
  /\ Len(Get(probe.data, "questions", <<>>)) >= 2
  /\ \A i \in 1..Len(probe.data.questions) :
        Get(probe.data.questions[i], "answer", "") # ""

(* C5 as stated: for every assignment document the student rendering never *)
(* contains "Answer:", and the answer key does whenever there is a question. *)
C5_NeverAnswerLiteral ==
  probe.op = "generate_docx_assignment" =>
     /\ ~probe.include_answers => ~DocContains(probe.runs, "Answer:")
     /\ (probe.include_answers /\ Get(probe.data, "questions", <<>>) # <<>>)
           => DocContains(probe.runs, "Answer:")

\* the schema of each kind of document
Conforms(kind, v) ==
  CASE kind = "slides" ->
         /\ Keys(v) = {"deck_title", "slides"}
         /\ \A i \in 1..Len(v.slides) :
               /\ Keys(v.slides[i]) = {"type", "title", "bullets", "speaker_notes"}
               /\ v.slides[i].type \in {"title", "content", "summary"}
    [] kind = "poster" ->
         /\ Keys(v) = {"poster_title", "sections", "footer_callout"}
         /\ \A i \in 1..Len(v.sections) :
               Keys(v.sections[i]) = {"heading", "body_bullets"}
    [] kind = "assignment" ->
         /\ Keys(v) = {"assignment_title", "instructions", "questions", "rubric"}
         /\ \A i \in 1..Len(v.questions) :
               /\ Keys(v.questions[i]) =
                    {"type", "prompt", "choices", "answer", "explanation"}
               /\ v.questions[i].type \in {"mcq", "short"}

(* C6: in every state of the table each of slides_json, poster_json and     *)
(* assignment_json of every row is empty or a document of the schema of its *)
(* own kind.                                                                *)
C6_StoredDocumentsConform ==
  \A i \in 1..Len(db), kind \in Kinds :
     LET t == db[i][JsonField(kind)]
     IN  /\ ~json_loads_raises(t)
         /\ \/ json_loads(t) = EmptyDict
            \/ Conforms(kind, json_loads(t))

(* C7: reading a project whose stored JSON text is malformed does not raise *)
(* and yields that field as an empty document.                              *)
C7_MalformedReadsAsEmpty ==
  probe.op \in {"load_project", "get_project_by_token"} =>
     /\ ~probe.raises
     /\ probe.out # NoneDict =>
          \A col \in JsonColumns :
             probe.row[col] = MalformedText => probe.out[col] = EmptyDict

(* C8: after N creations through the form the table holds N rows with N     *)
(* distinct teacher tokens and N distinct student tokens, no value is both, *)
(* and a lookup by token matches at most one row.                           *)
C8_TokensUnique ==
  LET n == Len(db)
      teacher == {db[i].teacher_token : i \in 1..n}
      student == {db[i].student_token : i \in 1..n}
  IN  /\ 3 * n = uuid_calls
      /\ Cardinality(teacher) = n
      /\ Cardinality(student) = n
      /\ teacher \cap student = {}
      /\ \A t \in teacher \cup student \cup {"", "uuid-00"},
            mode \in {"student", "teacher"} :
            Cardinality(RowsWhere(db, TokenColumn(mode), t)) <= 1

\* two projects have been created and one is looked up by its student token
C8_Witness ==
  /\ Len(db) >= 2
  /\ last.view = "student"
  /\ last.token_param = db[2].student_token

(* C9: in a run with no token parameter the dashboard is rendered exactly   *)
(* when the access code entered in that run equals TEACHER_CODE, whatever   *)
(* is_authenticated an earlier run of the session has left.                 *)
C9_DashboardIffCode ==
  (Ran /\ last.token_param = None) =>
     (last.view = "dashboard" <=> last.code = TEACHER_CODE)

\* a run with no code entered, in a session whose flag an earlier run set
C9_Witness ==
  /\ Ran
  /\ last.token_param = None
  /\ last.code # TEACHER_CODE
  /\ last.view # "dashboard"
  /\ session_state[last.session].is_authenticated = True

(* C10: a creation form submitted with the safety acknowledgment unchecked  *)
(* or with no title creates nothing: save_project is not called, the table  *)
(* and every session's current_project_id stay as they were.                *)
C10_InvalidFormCreatesNothing ==
  [][last'.outcome \in {"blocked_safety", "blocked_title"} =>
       /\ db' = db
       /\ clock' = clock
       /\ \A s \in Sessions :
             session_state'[s].current_project_id =
               session_state[s].current_project_id]_vars

\* a form has been refused in a session that has a project of its own
C10_Witness ==
  /\ last.outcome \in {"blocked_safety", "blocked_title"}
  /\ db # <<>>
  /\ session_state[last.session].current_project_id # None


(* C11: a generation that is saved replaces the JSON field of its kind in   *)
(* the stored row and leaves the other two JSON fields of every stored row  *)
(* as they were, whatever the other sessions did between the load and the   *)
(* save; so two sessions that generate different kinds for one project      *)
(* leave both documents in the row.                                         *)
C11_SaveReplacesOnlyItsField ==
  [][\A s \in AllSessions :
       (s \in Sessions /\ pc[s] = "generating" /\ last'.session = s
          /\ last'.outcome = "gen_saved") =>
            /\ Len(db') = Len(db)
            /\ \A i \in 1..Len(db) :
                  \A col \in JsonColumns \ {JsonField(gen_kind[s])} :
                     db'[i][col] = db[i][col]]_vars

(* C12: in every dashboard run that shows a project, the project loaded and *)
(* rendered in the teacher view is the one chosen in the project selector,  *)
(* also in the runs of a session that has created a project before.  (The   *)
(* run of the creation itself is left aside: its selector is redrawn by the *)
(* rerun.)                                                                  *)
C12_RenderedIsSelected ==
  (Ran /\ last.view = "dashboard" /\ last.sel # None /\ last.outcome = "none") =>
     last.project_id = last.sel
====
